---- MODULE Spec2Model ----
(***************************************************************************)
(* Two independent command-line utilities.                                 *)
(*                                                                         *)
(* Flow A (bot.py): read two tokens from the environment, fetch a pull     *)
(* request diff, send it to a chat-completion endpoint, extract the review *)
(* text and the cost, post both as an issue comment.                       *)
(*                                                                         *)
(* Flow B (fast_batch_resizer.py): enumerate the image files of a          *)
(* directory, take the target resolution from the first file (or from      *)
(* --width/--height), load every file, concatenate, resize the batch and   *)
(* save each image under its original name.                                *)
(*                                                                         *)
(* Text is modelled by TLA+ strings; a JSON document by a tagged record    *)
(* (t = "null" | "str" | "int" | "float" | "list" | "obj"); a float by its *)
(* value in hundredths.  An HTTP body is a record [valid, raw, doc]: raw   *)
(* is the decoded text, valid says whether json.loads accepts it, and doc  *)
(* is the document json.loads then returns.                                *)
(***************************************************************************)
EXTENDS Integers, Sequences, FiniteSets, TLC

VARIABLES
    \* ---- Flow A -------------------------------------------------------
    pc,             \* position of main(): "env", "fetch", "review", "extract",
                    \* "comment", "except", "exited"; "idle" when Flow B runs
    environ,        \* os.environ restricted to the two token names
    args,           \* argparse namespace: pr_number, issue_number, model, verbose
    gitea_token,    \* main's locals
    openrouter_token,
    diff,
    response,
    review_text,
    cost,
    exc,            \* the exception in flight, NoExc when none
    requests,       \* the network requests issued so far, in order
    replies,        \* what the network answered to each request, in order
    stdout,         \* the lines printed so far
    exitStatus,     \* <<>> until the process ends, then <<its exit status>>
    commentReturn,  \* the value add_comment_to_issue returned
    \* ---- Flow B -------------------------------------------------------
    bpc,            \* position of the resizer; "idle" when Flow A runs
    cli,            \* argparse namespace: scale, width, height
    directory,      \* the entries of input_dir in iterdir() order
    image_files,
    new_width,
    new_height,
    batch_tensors,  \* the shape <<1, c, h, w>> of each loaded tensor
    batch_filenames,
    batch,          \* shape <<n, c, h, w>> of the concatenated tensor
    idx,            \* loop index of the load loop, then of the save loop
    resized_batch,
    output_files,   \* the files written into output_dir
    blog,           \* the lines the resizer printed
    outcome         \* "running", "returned" or "raised"

varsA == <<pc, environ, args, gitea_token, openrouter_token, diff, response,
           review_text, cost, exc, requests, replies, stdout, exitStatus,
           commentReturn>>
varsB == <<bpc, cli, directory, image_files, new_width, new_height,
           batch_tensors, batch_filenames, batch, idx, resized_batch, output_files,
           blog, outcome>>
vars == <<varsA, varsB>>

----------------------------------------------------------------------------
(* Bounds of the model                                                     *)

MaxFiles == 3       \* entries of the input directory
MaxDim == 4         \* image width and height range over 1 .. MaxDim
MaxScaleNum == 5    \* scale factors are k / ScaleDen, k in 1 .. MaxScaleNum
ScaleBits == 2      \* ScaleDen = 2 ^ ScaleBits

----------------------------------------------------------------------------
(* Python values                                                           *)

JNull == [t |-> "null"]
JStr(s) == [t |-> "str", s |-> s]
JInt(n) == [t |-> "int", n |-> n]
JFloat(c) == [t |-> "float", c |-> c]
JList(items) == [t |-> "list", items |-> items]
JObj(f) == [t |-> "obj", f |-> f]

Digit(d) == CASE d = 0 -> "0" [] d = 1 -> "1" [] d = 2 -> "2" [] d = 3 -> "3"
              [] d = 4 -> "4" [] d = 5 -> "5" [] d = 6 -> "6" [] d = 7 -> "7"
              [] d = 8 -> "8" [] d = 9 -> "9"

RECURSIVE NatStr(_)
NatStr(n) == IF n < 10 THEN Digit(n) ELSE NatStr(n \div 10) \o Digit(n % 10)

\* str(n) of a Python int
IntStr(n) == IF n < 0 THEN "-" \o NatStr(-n) ELSE NatStr(n)

\* str(x) of a non-negative Python float with at most two decimals, given in
\* hundredths: the shortest representation, with at least one decimal.
FloatStr(c) ==
    LET whole == c \div 100
        frac == c % 100
    IN  NatStr(whole) \o "." \o
        (IF frac % 10 = 0 THEN Digit(frac \div 10)
                          ELSE Digit(frac \div 10) \o Digit(frac % 10))

\* What an f-string replacement field {v} produces: format(v, "") = str(v).
PyStr(v) ==
    CASE v.t = "str" -> v.s
      [] v.t = "int" -> IntStr(v.n)
      [] v.t = "float" -> FloatStr(v.c)
      [] v.t = "null" -> "None"

\* repr() of a subscript, as KeyError shows it
PyRepr(k) == IF k.t = "str" THEN "'" \o k.s \o "'" ELSE PyStr(k)

NoExc == [type |-> "", msg |-> ""]
Exc(type, msg) == [type |-> type, msg |-> msg]
Ok(v) == [ok |-> TRUE, v |-> v]
Raise(type, msg) == [ok |-> FALSE, exc |-> Exc(type, msg)]

\* mutant of GetItem: dict.get / a guarded index, None instead of raising
GetItemLenient(v, k) ==
    IF v.t = "obj" /\ k.t = "str" /\ k.s \in DOMAIN v.f
    THEN Ok(v.f[k.s])
    ELSE IF v.t = "list" /\ k.t = "int" /\ k.n >= 0 /\ k.n < Len(v.items)
    THEN Ok(v.items[k.n + 1])
    ELSE Ok(JNull)

\* v[k] of Python, on the values a parsed JSON document can hold
GetItem(v, k) ==
    CASE v.t = "obj" ->
            IF k.t = "str" /\ k.s \in DOMAIN v.f
            THEN Ok(v.f[k.s])
            ELSE Raise("KeyError", PyRepr(k))
      [] v.t = "list" ->
            IF k.t # "int"
            THEN Raise("TypeError", "list indices must be integers or slices, not str")
            ELSE IF k.n >= 0 /\ k.n < Len(v.items)
            THEN Ok(v.items[k.n + 1])
            ELSE IF k.n < 0 /\ -k.n <= Len(v.items)
            THEN Ok(v.items[Len(v.items) + k.n + 1])
            ELSE Raise("IndexError", "list index out of range")
      [] v.t = "null" -> Raise("TypeError", "'NoneType' object is not subscriptable")
      [] v.t = "int" -> Raise("TypeError", "'int' object is not subscriptable")
      [] v.t = "float" -> Raise("TypeError", "'float' object is not subscriptable")

\* v[k1][k2]...: the first failing subscript raises
RECURSIVE GetPath(_, _)
GetPath(v, path) ==
    IF path = <<>> THEN Ok(v)
    ELSE LET r == GetItem(v, Head(path))
         IN  IF r.ok THEN GetPath(r.v, Tail(path)) ELSE r

----------------------------------------------------------------------------
(* Flow A: constants and inputs                                            *)

GITEA_BASE_URL == "https://gitea.mavolk.de/api/v1/repos/max/python-rq-encoding"
OPENROUTER_URL == "https://openrouter.ai/api/v1/chat/completions"
DEFAULT_MODEL == "z-ai/glm-4.7"

EnvNames == {"GITEA_TOKEN", "OPENROUTER_TOKEN"}
EnvValues == {"", "secret"}
Environs == UNION {[S -> EnvValues] : S \in SUBSET EnvNames}
ArgSets == [pr_number : {3}, issue_number : {3, 14}, model : {DEFAULT_MODEL},
            verbose : BOOLEAN]

Body(valid, raw, doc) == [valid |-> valid, raw |-> raw, doc |-> doc]
HttpOk(body) == [kind |-> "ok", status |-> 200, reason |-> "OK", body |-> body,
                 headers |-> <<<<"Content-Type", "application/json">>>>]
HttpError(code, reason, raw) ==
    [kind |-> "HTTPError", status |-> code, reason |-> reason,
     body |-> Body(FALSE, raw, JNull), headers |-> <<>>]
UrlError(reason) ==
    [kind |-> "URLError", status |-> 0, reason |-> reason,
     body |-> Body(FALSE, "", JNull), headers |-> <<>>]
\* a 2xx answer whose bytes are not UTF-8
BadUtf8 == [kind |-> "BadUtf8", status |-> 200, reason |-> "OK",
            body |-> Body(FALSE, "", JNull), headers |-> <<>>]

Failures == {HttpError(404, "Not Found", "gone"), UrlError("timed out"), BadUtf8}

DiffReplies == {HttpOk(Body(FALSE, "--- a\n+++ b\n", JNull))} \cup Failures

Contents == {JStr("X"), JStr("LGTM\nnit: rename y"), JNull}
Costs == {JFloat(1), JFloat(10), JFloat(125), JFloat(200),
          JInt(0), JInt(12), JStr("0.01"), JNull}
Review(content, c) ==
    JObj([choices |-> JList(<<JObj([message |-> JObj([content |-> content])])>>),
          usage |-> JObj([cost |-> c])])
WellFormed == {Review(x, c) : x \in Contents, c \in Costs}
Message(f) == JList(<<JObj([message |-> JObj(f)])>>)
Malformed ==
    { JObj([choices |-> Message([content |-> JStr("X")])]),
      JObj([usage |-> JObj([cost |-> JFloat(1)])]),
      JObj([choices |-> JList(<<>>), usage |-> JObj([cost |-> JFloat(1)])]),
      JObj([choices |-> Message([content |-> JStr("X")]),
            usage |-> JObj([tokens |-> JInt(12)])]),
      JObj([choices |-> Message([role |-> JStr("assistant")]),
            usage |-> JObj([cost |-> JFloat(1)])]),
      JObj([choices |-> JNull, usage |-> JObj([cost |-> JFloat(1)])]),
      JList(<<>>),
      JNull }
ReviewReplies ==
    {HttpOk(Body(TRUE, "{...}", d)) : d \in WellFormed \cup Malformed}
    \cup {HttpOk(Body(FALSE, "<html>busy</html>", JNull))} \cup Failures

CommentReplies ==
    {HttpOk(Body(TRUE, "{\"id\": 5}", JObj([id |-> JInt(5)]))),
     HttpOk(Body(FALSE, "created", JNull)),
     HttpOk(Body(FALSE, "", JNull))} \cup Failures

----------------------------------------------------------------------------
(* Flow A: the functions of bot.py                                         *)

Truthy(v) == ~(v.t = "null" \/ (v.t = "str" /\ v.s = ""))

\* mutant of get_env_var: "if value is None", so the empty string passes
get_env_var_unset_only(env, name) ==
    IF name \notin DOMAIN env
    THEN Raise("BotError", "Environment variable '" \o name \o "' is not set")
    ELSE Ok(env[name])

get_env_var(env, name) ==
    LET value == IF name \in DOMAIN env THEN JStr(env[name]) ELSE JNull
    IN  IF ~Truthy(value)
        THEN Raise("BotError", "Environment variable '" \o name \o "' is not set")
        ELSE Ok(value.s)

\* str(e) of the urllib exception a failed reply raises
UrlErrorStr(reply) ==
    IF reply.kind = "HTTPError"
    THEN "HTTP Error " \o IntStr(reply.status) \o ": " \o reply.reason
    ELSE "<urlopen error " \o reply.reason \o ">"

DecodeError ==
    Exc("UnicodeDecodeError",
        "'utf-8' codec can't decode byte 0xff in position 0: invalid start byte")

DiffRequest(pr_number, api_token) ==
    [method |-> "GET",
     url |-> GITEA_BASE_URL \o "/pulls/" \o IntStr(pr_number) \o ".diff",
     auth |-> "token " \o api_token,
     payload |-> JNull]

get_pull_request_diff(reply) ==
    CASE reply.kind = "ok" -> Ok(reply.body.raw)
      [] reply.kind \in {"HTTPError", "URLError"} ->
            Raise("BotError", "Failed to fetch pull request diff: " \o UrlErrorStr(reply))
      [] reply.kind = "BadUtf8" -> [ok |-> FALSE, exc |-> DecodeError]

Prompt(d) ==
    "\n                You are a senior software engineer reviewing a code change."
    \o "\n                Analyze the following changes and provide a structured review:"
    \o "\n                " \o d \o "\n                "

ReviewRequest(d, api_token, model) ==
    [method |-> "POST",
     url |-> OPENROUTER_URL,
     auth |-> "Bearer " \o api_token,
     payload |-> JObj([model |-> JStr(model),
                       messages |-> JList(<<JObj([role |-> JStr("user"),
                                                  content |-> JStr(Prompt(d))])>>)])]

JsonDecodeError == Exc("JSONDecodeError", "Expecting value: line 1 column 1 (char 0)")
PrettyJson == "<json.dumps(indent=2)>"

\* [res: the value returned or the exception raised, out: the lines printed]
send_to_openrouter(reply, verbose) ==
    CASE reply.kind = "ok" ->
            LET first == IF verbose THEN "Success! Response:"
                         ELSE "Successfully sent diff to OpenRouter for review"
            IN  IF ~reply.body.valid
                THEN [res |-> Raise("BotError", "Failed to parse JSON response: "
                                                \o JsonDecodeError.msg),
                      out |-> <<first>>]
                ELSE [res |-> Ok(reply.body.doc),
                      out |-> IF verbose THEN <<first, PrettyJson>> ELSE <<first>>]
      [] reply.kind = "HTTPError" ->
            [res |-> Raise("BotError", "HTTP Error " \o IntStr(reply.status) \o " - "
                                       \o reply.reason \o ": " \o reply.body.raw),
             out |-> <<>>]
      [] reply.kind = "URLError" ->
            [res |-> Raise("BotError", "URL Error: " \o reply.reason), out |-> <<>>]
      [] reply.kind = "BadUtf8" ->
            [res |-> [ok |-> FALSE, exc |-> DecodeError], out |-> <<>>]

\* mutant of CommentPayload: review and cost interpolated the other way round
CommentPayloadSwapped(text, c) ==
    JObj([body |-> JStr("Review:\n" \o PyStr(c) \o "\nCost:" \o PyStr(text))])

CommentPayload(text, c) ==
    JObj([body |-> JStr("Review:\n" \o PyStr(text) \o "\nCost:" \o PyStr(c))])

CommentRequest(issue_number, text, c, api_token) ==
    [method |-> "POST",
     url |-> GITEA_BASE_URL \o "/issues/" \o IntStr(issue_number) \o "/comments",
     auth |-> "token " \o api_token,
     payload |-> CommentPayload(text, c)]

HeaderLines(h) == [i \in 1..Len(h) |-> "  " \o h[i][1] \o ": " \o h[i][2]]

\* mutant of ParseCommentBody: no inner try, the decode error reaches the caller
ParseCommentBodyStrict(body, issue_number, verbose) ==
    IF body.valid
    THEN [res |-> Ok(body.doc),
          out |-> IF verbose
                  THEN <<"\nParsed JSON response:", PrettyJson>>
                  ELSE <<"Successfully posted review comment to issue #"
                         \o IntStr(issue_number)>>]
    ELSE [res |-> Raise("JSONDecodeError", "Expecting value: line 1 column 1 (char 0)"),
          out |-> <<>>]

\* what the inner try of add_comment_to_issue does with the decoded body
ParseCommentBody(body, issue_number, verbose) ==
    IF body.valid
    THEN [res |-> Ok(body.doc),
          out |-> IF verbose
                  THEN <<"\nParsed JSON response:", PrettyJson>>
                  ELSE <<"Successfully posted review comment to issue #"
                         \o IntStr(issue_number)>>]
    ELSE [res |-> Ok(JObj([raw_response |-> JStr(body.raw)])), out |-> <<>>]

add_comment_to_issue(issue_number, verbose, reply) ==
    CASE reply.kind = "ok" ->
            LET shown == IF verbose
                         THEN <<"Status: " \o IntStr(reply.status), "Response headers:">>
                              \o HeaderLines(reply.headers)
                              \o <<"\nResponse body:", reply.body.raw>>
                         ELSE <<>>
                parsed == ParseCommentBody(reply.body, issue_number, verbose)
            IN  [res |-> parsed.res, out |-> shown \o parsed.out]
      [] reply.kind = "HTTPError" ->
            [res |-> Raise("BotError", "HTTP Error " \o IntStr(reply.status) \o " - "
                                       \o reply.reason \o ": " \o reply.body.raw),
             out |-> <<>>]
      [] reply.kind = "URLError" ->
            [res |-> Raise("BotError", "URL/Connection Error: " \o reply.reason),
             out |-> <<>>]
      [] reply.kind = "BadUtf8" ->
            [res |-> [ok |-> FALSE, exc |-> DecodeError], out |-> <<>>]

\* mutant of handle_error: the message is printed and the process ends normally
handle_error_no_exit(error, context) ==
    [line |-> "Error in " \o context \o ": " \o error.msg, status |-> 0]

\* print(f"Error in {context}: {error}"); exit(1)
handle_error(error, context) ==
    [line |-> "Error in " \o context \o ": " \o error.msg, status |-> 1]

\* the except clauses of main: BotError first, then every other Exception
ExceptContext(error) ==
    IF error.type = "BotError" THEN "bot operation" ELSE "unexpected error"

----------------------------------------------------------------------------
(* Flow A: main()                                                          *)

IdleB ==
    /\ bpc = "idle" /\ cli = [scale |-> 0, width |-> <<>>, height |-> <<>>]
    /\ directory = <<>> /\ image_files = <<>>
    /\ new_width = 0 /\ new_height = 0
    /\ batch_tensors = <<>> /\ batch_filenames = <<>> /\ batch = <<>>
    /\ idx = 0 /\ resized_batch = <<>> /\ output_files = {}
    /\ blog = <<>> /\ outcome = "idle"

InitA ==
    /\ pc = "env"
    /\ environ \in Environs
    /\ args \in ArgSets
    /\ gitea_token = "" /\ openrouter_token = "" /\ diff = ""
    /\ response = JNull /\ review_text = JNull /\ cost = JNull
    /\ exc = NoExc
    /\ requests = <<>> /\ replies = <<>> /\ stdout = <<>>
    /\ exitStatus = <<>>
    /\ commentReturn = JNull
    /\ IdleB

\* lines 232-233
MainGetEnv ==
    /\ pc = "env"
    /\ LET g == get_env_var(environ, "GITEA_TOKEN")
           o == get_env_var(environ, "OPENROUTER_TOKEN")
       IN  IF ~g.ok
           THEN /\ exc' = g.exc /\ pc' = "except"
                /\ UNCHANGED <<gitea_token, openrouter_token>>
           ELSE IF ~o.ok
           THEN /\ exc' = o.exc /\ pc' = "except"
                /\ gitea_token' = g.v
                /\ UNCHANGED openrouter_token
           ELSE /\ gitea_token' = g.v /\ openrouter_token' = o.v
                /\ pc' = "fetch"
                /\ UNCHANGED exc
    /\ UNCHANGED <<environ, args, diff, response, review_text, cost, requests,
                   replies, stdout, exitStatus, commentReturn>>
    /\ UNCHANGED varsB

\* line 236
MainFetchDiff ==
    /\ pc = "fetch"
    /\ \E reply \in DiffReplies :
          LET r == get_pull_request_diff(reply)
          IN  /\ requests' = Append(requests, DiffRequest(args.pr_number, gitea_token))
              /\ replies' = Append(replies, reply)
              /\ IF r.ok
                 THEN diff' = r.v /\ pc' = "review" /\ UNCHANGED exc
                 ELSE exc' = r.exc /\ pc' = "except" /\ UNCHANGED diff
    /\ UNCHANGED <<environ, args, gitea_token, openrouter_token, response,
                   review_text, cost, stdout, exitStatus, commentReturn>>
    /\ UNCHANGED varsB

\* line 239
MainSendReview ==
    /\ pc = "review"
    /\ \E reply \in ReviewReplies :
          LET r == send_to_openrouter(reply, args.verbose)
          IN  /\ requests' = Append(requests,
                                    ReviewRequest(diff, openrouter_token, args.model))
              /\ replies' = Append(replies, reply)
              /\ stdout' = stdout \o r.out
              /\ IF r.res.ok
                 THEN response' = r.res.v /\ pc' = "extract" /\ UNCHANGED exc
                 ELSE exc' = r.res.exc /\ pc' = "except" /\ UNCHANGED response
    /\ UNCHANGED <<environ, args, gitea_token, openrouter_token, diff,
                   review_text, cost, exitStatus, commentReturn>>
    /\ UNCHANGED varsB

ContentPath == <<JStr("choices"), JInt(0), JStr("message"), JStr("content")>>
CostPath == <<JStr("usage"), JStr("cost")>>

\* lines 242-243
MainExtract ==
    /\ pc = "extract"
    /\ LET t == GetPath(response, ContentPath)
           c == GetPath(response, CostPath)
       IN  IF ~t.ok
           THEN exc' = t.exc /\ pc' = "except" /\ UNCHANGED <<review_text, cost>>
           ELSE IF ~c.ok
           THEN /\ exc' = c.exc /\ pc' = "except"
                /\ review_text' = t.v /\ UNCHANGED cost
           ELSE /\ review_text' = t.v /\ cost' = c.v
                /\ pc' = "comment" /\ UNCHANGED exc
    /\ UNCHANGED <<environ, args, gitea_token, openrouter_token, diff, response,
                   requests, replies, stdout, exitStatus, commentReturn>>
    /\ UNCHANGED varsB

\* line 246, then main returns and the interpreter exits with status 0
MainAddComment ==
    /\ pc = "comment"
    /\ \E reply \in CommentReplies :
          LET r == add_comment_to_issue(args.issue_number, args.verbose, reply)
          IN  /\ requests' = Append(requests,
                     CommentRequest(args.issue_number, review_text, cost, gitea_token))
              /\ replies' = Append(replies, reply)
              /\ stdout' = stdout \o r.out
              /\ IF r.res.ok
                 THEN /\ commentReturn' = r.res.v
                      /\ pc' = "exited" /\ exitStatus' = <<0>>
                      /\ UNCHANGED exc
                 ELSE /\ exc' = r.res.exc /\ pc' = "except"
                      /\ UNCHANGED <<commentReturn, exitStatus>>
    /\ UNCHANGED <<environ, args, gitea_token, openrouter_token, diff, response,
                   review_text, cost>>
    /\ UNCHANGED varsB

\* lines 248-251: the handler prints and exit(1) ends the process
MainExcept ==
    /\ pc = "except"
    /\ LET h == handle_error(exc, ExceptContext(exc))
       IN  /\ stdout' = Append(stdout, h.line)
           /\ exitStatus' = <<h.status>>
    /\ pc' = "exited"
    /\ UNCHANGED <<environ, args, gitea_token, openrouter_token, diff, response,
                   review_text, cost, exc, requests, replies, commentReturn>>
    /\ UNCHANGED varsB

NextA ==
    \/ MainGetEnv
    \/ MainFetchDiff
    \/ MainSendReview
    \/ MainExtract
    \/ MainAddComment
    \/ MainExcept

SpecA == InitA /\ [][NextA]_vars

----------------------------------------------------------------------------
(* Flow B: inputs.  A directory entry is [stem, suffix, is_file, kind, w,  *)
(* h]: kind "ok" decodes; "badheader" makes Image.open raise; "badbody"    *)
(* opens (PIL reads only the header, so width and height are known) and    *)
(* raises when the pixels are loaded.  The device only changes what is     *)
(* printed and is left out.                                                *)

ScaleDen == 2 ^ ScaleBits
EntryTypes == {"ok0", "ok1", "ok2", "badheader", "badbody", "text", "subdir"}

Suffix(ty) ==
    CASE ty = "ok0" -> ".jpg" [] ty = "ok1" -> ".PNG" [] ty = "ok2" -> ".Tiff"
      [] ty = "badheader" -> ".png" [] ty = "badbody" -> ".jpeg"
      [] ty = "text" -> ".txt" [] ty = "subdir" -> ".webp"

\* the three resolutions in play: base, and two that differ from it and
\* from each other
Resolution(ty, base) ==
    CASE ty = "ok1" -> [w |-> base.h + 1, h |-> base.w]
      [] ty = "ok2" -> [w |-> base.w + 1, h |-> base.h + 1]
      [] OTHER -> base

Entry(i, ty, base) ==
    [stem |-> "img" \o NatStr(i), suffix |-> Suffix(ty),
     is_file |-> ty # "subdir",
     kind |-> CASE ty \in {"ok0", "ok1", "ok2", "text"} -> "ok"
                [] ty = "subdir" -> "badheader"
                [] OTHER -> ty,
     w |-> Resolution(ty, base).w, h |-> Resolution(ty, base).h]

Name(f) == f.stem \o f.suffix

Directories(types, base, lo) ==
    UNION {{[i \in 1..n |-> Entry(i, t[i], base)] : t \in [1..n -> types]} :
           n \in lo..MaxFiles}

ScaleArgs == {<<>>} \cup {<<k>> : k \in 1..MaxScaleNum}
WidthArgs == {<<>>, <<0>>, <<2>>, <<-1>>}
HeightArgs == {<<>>, <<0>>, <<3>>}
MixedBase == [w |-> 3, h |-> 2]

----------------------------------------------------------------------------
(* Flow B: the pieces of fast_batch_resizer.py                             *)

extensions == {".jpg", ".jpeg", ".png", ".bmp", ".tiff", ".webp"}

\* str.lower() on the suffixes in play
Lower(sfx) ==
    CASE sfx = ".PNG" -> ".png" [] sfx = ".Tiff" -> ".tiff" [] OTHER -> sfx

\* mutant of IsImageFile: the is_file() test left out
IsImageName(f) == Lower(f.suffix) \in extensions

IsImageFile(f) == Lower(f.suffix) \in extensions /\ f.is_file

\* lines 34-35
ListImages(dir) == SelectSeq(dir, IsImageFile)

\* argparse: --scale defaults to 0.5
ParsedScale(a) == IF a = <<>> THEN ScaleDen \div 2 ELSE a[1]

\* truth value of an optional int: None and 0 are false
OptTruthy(a) == a # <<>> /\ a[1] # 0

\* lines 165-167
TargetSize(width, height) ==
    IF OptTruthy(width) /\ OptTruthy(height) THEN <<width[1], height[1]>> ELSE <<>>

\* int(x) of the float n / d: truncation toward zero
PyInt(n, d) == IF n >= 0 THEN n \div d ELSE -((-n) \div d)

\* mutant of CalcTarget: the height computed from the sample's width
CalcTargetFromWidth(sample, scale, target_size) ==
    IF target_size # <<>>
    THEN [w |-> target_size[1], h |-> target_size[2]]
    ELSE [h |-> PyInt(sample.w * scale, ScaleDen),
          w |-> PyInt(sample.w * scale, ScaleDen)]

\* lines 52-56
CalcTarget(sample, scale, target_size) ==
    IF target_size # <<>>
    THEN [w |-> target_size[1], h |-> target_size[2]]
    ELSE [h |-> PyInt(sample.h * scale, ScaleDen),
          w |-> PyInt(sample.w * scale, ScaleDen)]

\* transforms.ToTensor()(img.convert('RGB')).unsqueeze(0)
ToTensor(f) == <<1, 3, f.h, f.w>>

RECURSIVE SumHeads(_)
SumHeads(ts) == IF ts = <<>> THEN 0 ELSE Head(ts)[1] + SumHeads(Tail(ts))

\* mutant of TorchCat: a concatenation that accepts tensors of any size
TorchCatAnySize(ts) == Ok(<<SumHeads(ts)>> \o Tail(ts[1]))

\* torch.cat(tensors, dim=0)
TorchCat(ts) ==
    IF \A i, j \in 1..Len(ts) : Tail(ts[i]) = Tail(ts[j])
    THEN Ok(<<SumHeads(ts)>> \o Tail(ts[1]))
    ELSE Raise("RuntimeError",
               "Sizes of tensors must match except in dimension 0")

\* resize(batch, [h, w], antialias=True)
Resize(b, size) ==
    IF size[1] > 0 /\ size[2] > 0
    THEN Ok(<<b[1], b[2], size[1], size[2]>>)
    ELSE Raise("RuntimeError", "Input and output sizes should be greater than 0")

\* line 105
ResizeCall(b, h, w) == Resize(b, <<h, w>>)

\* transforms.ToPILImage()(resized_batch[i]).size
ToPILImage(b) == [w |-> b[4], h |-> b[3]]

----------------------------------------------------------------------------
(* Flow B: batch_resize_same_resolution, entered from __main__             *)

IdleA ==
    /\ pc = "idle" /\ environ = <<>>
    /\ args = [pr_number |-> 0, issue_number |-> 0, model |-> "", verbose |-> FALSE]
    /\ gitea_token = "" /\ openrouter_token = "" /\ diff = ""
    /\ response = JNull /\ review_text = JNull /\ cost = JNull
    /\ exc = NoExc
    /\ requests = <<>> /\ replies = <<>> /\ stdout = <<>>
    /\ exitStatus = <<>>
    /\ commentReturn = JNull

Uniform ==
    \E bw \in 1..MaxDim, bh \in 1..MaxDim :
        directory \in Directories({"ok0"}, [w |-> bw, h |-> bh], 1)

Mixed == directory \in Directories(EntryTypes, MixedBase, 0)

InitB ==
    /\ bpc = "start"
    /\ cli \in [scale : ScaleArgs, width : WidthArgs, height : HeightArgs]
    /\ Uniform \/ Mixed
    /\ image_files = <<>>
    /\ new_width = 0 /\ new_height = 0
    /\ batch_tensors = <<>> /\ batch_filenames = <<>> /\ batch = <<>>
    /\ idx = 0 /\ resized_batch = <<>> /\ output_files = {}
    /\ blog = <<>> /\ outcome = "running"
    /\ IdleA

\* lines 21-44
Enumerate ==
    /\ bpc = "start"
    /\ image_files' = ListImages(directory)
    /\ IF image_files' = <<>>
       THEN /\ blog' = Append(blog, "No images found in input_dir")
            /\ bpc' = "done" /\ outcome' = "returned"
       ELSE /\ blog' = Append(blog, "Found " \o NatStr(Len(image_files')) \o " images")
            /\ bpc' = "sample" /\ UNCHANGED outcome
    /\ UNCHANGED <<cli, directory, new_width, new_height, batch_tensors,
                   batch_filenames, batch, idx, resized_batch, output_files>>
    /\ UNCHANGED varsA

\* lines 47-58: Image.open of the first file is not inside a try
Sample ==
    /\ bpc = "sample"
    /\ LET sample_img == image_files[1]
           t == CalcTarget(sample_img, ParsedScale(cli.scale),
                           TargetSize(cli.width, cli.height))
       IN  IF sample_img.kind = "badheader"
           THEN /\ bpc' = "done" /\ outcome' = "raised"
                /\ UNCHANGED <<new_width, new_height, idx, blog>>
           ELSE /\ new_width' = t.w /\ new_height' = t.h
                /\ blog' = blog \o
                     <<"Original resolution: " \o IntStr(sample_img.w) \o "x"
                           \o IntStr(sample_img.h),
                       "Target resolution: " \o IntStr(t.w) \o "x" \o IntStr(t.h)>>
                /\ idx' = 1
                /\ bpc' = "load" /\ UNCHANGED outcome
    /\ UNCHANGED <<cli, directory, image_files, batch_tensors, batch_filenames,
                   batch, resized_batch, output_files>>
    /\ UNCHANGED varsA

\* lines 69-83: one iteration of the load loop
Load ==
    /\ bpc = "load" /\ idx <= Len(image_files)
    /\ LET img_path == image_files[idx]
       IN  IF img_path.kind = "ok"
           THEN /\ batch_tensors' = Append(batch_tensors, ToTensor(img_path))
                /\ batch_filenames' = Append(batch_filenames, Name(img_path))
                /\ UNCHANGED blog
           ELSE /\ blog' = Append(blog, "Warning: Could not load " \o Name(img_path))
                /\ UNCHANGED <<batch_tensors, batch_filenames>>
    /\ idx' = idx + 1
    /\ UNCHANGED <<bpc, cli, directory, image_files, new_width, new_height, batch,
                   resized_batch, output_files, outcome>>
    /\ UNCHANGED varsA

\* lines 85-96
Stack ==
    /\ bpc = "load" /\ idx > Len(image_files)
    /\ IF batch_tensors = <<>>
       THEN /\ blog' = Append(blog, "No valid images found!")
            /\ bpc' = "done" /\ outcome' = "returned"
            /\ UNCHANGED batch
       ELSE LET r == TorchCat(batch_tensors)
            IN  IF r.ok
                THEN /\ batch' = r.v
                     /\ blog' = Append(blog, "Batch loaded: " \o NatStr(r.v[1])
                                             \o " images")
                     /\ bpc' = "resize" /\ UNCHANGED outcome
                ELSE /\ bpc' = "done" /\ outcome' = "raised"
                     /\ UNCHANGED <<batch, blog>>
    /\ UNCHANGED <<cli, directory, image_files, new_width, new_height,
                   batch_tensors, batch_filenames, idx, resized_batch, output_files>>
    /\ UNCHANGED varsA

\* lines 98-112
ResizeBatch ==
    /\ bpc = "resize"
    /\ LET r == ResizeCall(batch, new_height, new_width)
       IN  IF r.ok
           THEN /\ resized_batch' = r.v
                /\ idx' = 1
                /\ bpc' = "save" /\ UNCHANGED outcome
           ELSE /\ bpc' = "done" /\ outcome' = "raised"
                /\ UNCHANGED <<resized_batch, idx>>
    /\ UNCHANGED <<cli, directory, image_files, new_width, new_height,
                   batch_tensors, batch_filenames, batch, output_files, blog>>
    /\ UNCHANGED varsA

\* lines 114-128: one iteration of the save loop; a failed save is logged
Save ==
    /\ bpc = "save" /\ idx <= batch[1]
    /\ \E saved \in BOOLEAN :
          IF saved
          THEN /\ output_files' = output_files \cup
                     {[name |-> batch_filenames[idx],
                       w |-> ToPILImage(resized_batch).w,
                       h |-> ToPILImage(resized_batch).h]}
               /\ UNCHANGED blog
          ELSE /\ blog' = Append(blog, "Error saving " \o batch_filenames[idx])
               /\ UNCHANGED output_files
    /\ idx' = idx + 1
    /\ UNCHANGED <<bpc, cli, directory, image_files, new_width, new_height,
                   batch_tensors, batch_filenames, batch, resized_batch, outcome>>
    /\ UNCHANGED varsA

\* lines 130-147
Finish ==
    /\ bpc = "save" /\ idx > batch[1]
    /\ blog' = Append(blog, "  Total images processed: " \o NatStr(batch[1]))
    /\ bpc' = "done" /\ outcome' = "returned"
    /\ UNCHANGED <<cli, directory, image_files, new_width, new_height,
                   batch_tensors, batch_filenames, batch, idx, resized_batch,
                   output_files>>
    /\ UNCHANGED varsA

NextB ==
    \/ Enumerate
    \/ Sample
    \/ Load
    \/ Stack
    \/ ResizeBatch
    \/ Save
    \/ Finish

SpecB == InitB /\ [][NextB]_vars

----------------------------------------------------------------------------
(* Flow A: properties                                                      *)

MissingEnv == \E n \in EnvNames : n \notin DOMAIN environ \/ environ[n] = ""

\* the review document holds choices[0].message.content and usage.cost
HasFields(doc) ==
    /\ doc.t = "obj"
    /\ "choices" \in DOMAIN doc.f /\ "usage" \in DOMAIN doc.f
    /\ doc.f.choices.t = "list" /\ Len(doc.f.choices.items) >= 1
    /\ doc.f.choices.items[1].t = "obj"
    /\ "message" \in DOMAIN doc.f.choices.items[1].f
    /\ doc.f.choices.items[1].f.message.t = "obj"
    /\ "content" \in DOMAIN doc.f.choices.items[1].f.message.f
    /\ doc.f.usage.t = "obj" /\ "cost" \in DOMAIN doc.f.usage.f

IsDiffGet(r) ==
    r.method = "GET" /\ r.url = GITEA_BASE_URL \o "/pulls/3.diff"
IsReviewPost(r) == r.method = "POST" /\ r.url = OPENROUTER_URL
IsCommentPost(r) ==
    /\ r.method = "POST"
    /\ r.url \in {GITEA_BASE_URL \o "/issues/3/comments",
                   GITEA_BASE_URL \o "/issues/14/comments"}

\* C1: when GITEA_TOKEN or OPENROUTER_TOKEN is unset or empty, the run goes
\* from reading the environment straight to the error exit and no network
\* request (diff GET, review POST, comment POST) is ever issued.
C1_MissingEnvAbortsBeforeNetwork ==
    MissingEnv =>
        /\ requests = <<>> /\ replies = <<>>
        /\ pc \in {"env", "except", "exited"}
        /\ pc = "exited" => exitStatus = <<1>>

\* C1 witness: GITEA_TOKEN is set, OPENROUTER_TOKEN is the empty string, and
\* the run has ended without a request.
C1_Witness ==
    /\ pc = "exited" /\ requests = <<>>
    /\ DOMAIN environ = EnvNames
    /\ environ["GITEA_TOKEN"] = "secret" /\ environ["OPENROUTER_TOKEN"] = ""

\* C2: the requests issued are a prefix of <diff GET, review POST, comment
\* POST>, each at most once; the comment POST is issued only after the diff
\* fetch and the review request succeeded and the review document held both
\* choices[0].message.content and usage.cost; a review document without them
\* (no usage key, no or empty choices) ends the run with an error exit and
\* two requests.
C2_SequentialAndGuarded ==
    /\ Len(requests) <= 3 /\ Len(replies) = Len(requests)
    /\ Len(requests) >= 1 => IsDiffGet(requests[1])
    /\ Len(requests) >= 2 => IsReviewPost(requests[2]) /\ replies[1].kind = "ok"
    /\ Len(requests) = 3 =>
          /\ IsCommentPost(requests[3])
          /\ replies[1].kind = "ok" /\ replies[2].kind = "ok"
          /\ replies[2].body.valid
          /\ HasFields(replies[2].body.doc)
    /\ (/\ Len(replies) >= 2 /\ replies[2].kind = "ok" /\ replies[2].body.valid
        /\ ~HasFields(replies[2].body.doc)
        /\ pc = "exited")
          => Len(requests) = 2 /\ exitStatus = <<1>>

\* C2 witness: the review answered with a document that has choices and no
\* usage key, and the run ended after two requests.
C2_Witness ==
    /\ pc = "exited" /\ Len(requests) = 2
    /\ replies[2].kind = "ok" /\ replies[2].body.valid
    /\ replies[2].body.doc.t = "obj"
    /\ DOMAIN replies[2].body.doc.f = {"choices"}
    /\ exitStatus = <<1>>

Failed ==
    \/ MissingEnv
    \/ \E i \in 1..Len(replies) : replies[i].kind # "ok"
    \/ /\ Len(replies) >= 2 /\ replies[2].kind = "ok"
       /\ ~replies[2].body.valid \/ ~HasFields(replies[2].body.doc)

ErrorLines(msg) ==
    {"Error in bot operation: " \o msg, "Error in unexpected error: " \o msg}

\* C3: a run never stops before it exits; a run in which a step failed
\* (missing environment variable, failed diff fetch, failed or unparsable
\* review reply, review document without the fields, failed comment post)
\* exits with status 1 and its last printed line, and no earlier one, is
\* "Error in {context}: {message}" for the exception raised; a run in which
\* no step failed exits with status 0 after the three requests.
C3_FailuresExitOne ==
    /\ pc # "exited" => exitStatus = <<>> /\ ENABLED NextA
    /\ pc = "exited" =>
          IF Failed
          THEN /\ exitStatus = <<1>>
               /\ exc # NoExc
               /\ stdout # <<>>
               /\ stdout[Len(stdout)] \in ErrorLines(exc.msg)
               /\ \A i \in 1..(Len(stdout) - 1) : stdout[i] \notin ErrorLines(exc.msg)
          ELSE /\ exitStatus = <<0>>
               /\ exc = NoExc
               /\ Len(requests) = 3

\* C3 witness: the review document had no usage key, the KeyError reached the
\* catch-all clause, and the process exited with status 1.
C3_Witness ==
    /\ pc = "exited" /\ exitStatus = <<1>>
    /\ exc = Exc("KeyError", "'usage'")
    /\ stdout[Len(stdout)] = "Error in unexpected error: 'usage'"

\* str(C) of the costs in play, as Python prints them
ExpectedStr(c) ==
    CASE c = JFloat(1) -> "0.01" [] c = JFloat(10) -> "0.1"
      [] c = JFloat(125) -> "1.25" [] c = JFloat(200) -> "2.0"
      [] c = JInt(0) -> "0" [] c = JInt(12) -> "12"
      [] c = JStr("0.01") -> "0.01" [] c = JNull -> "None"

\* C4: whenever a comment is posted for a review document whose
\* choices[0].message.content is the string X and whose usage.cost is C, the
\* posted JSON object has the single key "body" and its value is
\* "Review:\n" + X + "\nCost:" + str(C).
C4_CommentBodyExact ==
    Len(requests) = 3 =>
        LET doc == replies[2].body.doc
            X == doc.f.choices.items[1].f.message.f.content
            C == doc.f.usage.f.cost
        IN  X.t = "str" =>
                requests[3].payload =
                    JObj([body |-> JStr("Review:\n" \o X.s \o "\nCost:"
                                        \o ExpectedStr(C))])

\* C4 witness: content "X" and cost 0.01 were posted as "Review:\nX\nCost:0.01".
C4_Witness ==
    /\ Len(requests) = 3
    /\ replies[2].body.doc = Review(JStr("X"), JFloat(1))
    /\ requests[3].payload.f.body.s = "Review:\nX\nCost:0.01"

\* C5: when the comment POST succeeds and its body is not valid JSON,
\* add_comment_to_issue returns {"raw_response": <the body text>}, verbose or
\* not, no exception is raised and the run exits with status 0.
C5_RawResponseFallback ==
    (/\ Len(replies) = 3 /\ replies[3].kind = "ok" /\ ~replies[3].body.valid)
        => /\ commentReturn = JObj([raw_response |-> JStr(replies[3].body.raw)])
           /\ exc = NoExc
           /\ pc = "exited" /\ exitStatus = <<0>>

\* C5 witness: a verbose run whose comment reply was the text "created".
C5_Witness ==
    /\ args.verbose
    /\ Len(replies) = 3 /\ replies[3].kind = "ok" /\ ~replies[3].body.valid
    /\ replies[3].body.raw = "created"
    /\ commentReturn = JObj([raw_response |-> JStr("created")])
    /\ pc = "exited"

----------------------------------------------------------------------------
(* Flow B: properties                                                      *)

\* the scale factor as a fraction: --scale k means k / ScaleDen, no --scale 1/2
ScaleN == IF cli.scale = <<>> THEN 1 ELSE cli.scale[1]
ScaleD == IF cli.scale = <<>> THEN 2 ELSE ScaleDen

\* round() of Python on n / d >= 0: to nearest, ties to even
PyRound(n, d) ==
    LET q == n \div d
        r == n % d
    IN  IF 2 * r < d THEN q
        ELSE IF 2 * r > d THEN q + 1
        ELSE IF q % 2 = 0 THEN q ELSE q + 1

\* x = int(dim * scale): x <= dim * scale < x + 1
Truncated(x, dim) == x * ScaleD <= dim * ScaleN /\ dim * ScaleN < (x + 1) * ScaleD

Loaded == {i \in 1..Len(image_files) : image_files[i].kind = "ok"}
SameRes(i, j) ==
    image_files[i].w = image_files[j].w /\ image_files[i].h = image_files[j].h
AllSameResolution ==
    /\ image_files # <<>>
    /\ Loaded = 1..Len(image_files)
    /\ \A i \in Loaded : SameRes(i, 1)
NoExplicitSize == cli.width = <<>> /\ cli.height = <<>>
SaveErrors == {"Error saving " \o Name(directory[i]) : i \in 1..Len(directory)}
NoSaveError == \A i \in 1..Len(blog) : blog[i] \notin SaveErrors

ExplicitSize ==
    /\ cli.width # <<>> /\ cli.height # <<>>
    /\ cli.width[1] # 0 /\ cli.height[1] # 0

\* o has the one target resolution of the run
AtTarget(o) ==
    IF ExplicitSize
    THEN o.w = cli.width[1] /\ o.h = cli.height[1]
    ELSE Truncated(o.w, image_files[1].w) /\ Truncated(o.h, image_files[1].h)

Undecodable == {i \in 1..Len(image_files) : image_files[i].kind # "ok"}
TargetPositive ==
    IF cli.width # <<>> /\ cli.height # <<>>
    THEN cli.width[1] > 0 /\ cli.height[1] > 0
    ELSE image_files[1].w * ScaleN >= ScaleD /\ image_files[1].h * ScaleN >= ScaleD

\* C7: with N >= 2 matching files of which exactly one cannot be decoded, wherever
\* it is enumerated, and the others of one resolution, the run does not
\* abort: it returns, a warning names the file, and (no save failing) exactly
\* the N-1 other files are written, at the target resolution, each under its
\* own name.
C7_OneCorruptFileIsSkipped ==
    (/\ bpc = "done" /\ Len(image_files) >= 2
     /\ Cardinality(Undecodable) = 1
     /\ \A i, j \in Loaded : SameRes(i, j)
     /\ TargetPositive)
        => /\ outcome = "returned"
           /\ \A i \in Undecodable :
                 \E k \in 1..Len(blog) :
                     blog[k] = "Warning: Could not load " \o Name(image_files[i])
           /\ NoSaveError =>
                 /\ {o.name : o \in output_files} = {Name(image_files[i]) : i \in Loaded}
                 /\ Cardinality(output_files) = Len(image_files) - 1
                 /\ \A o \in output_files : AtTarget(o)

MixedLoaded == \E i, j \in Loaded : ~SameRes(i, j)

\* C8, as stated: when the first enumerated image has resolution R0 and other
\* loaded images have other resolutions, the run completes and every output
\* has the one target resolution.
C8_Original ==
    (/\ bpc = "done" /\ image_files # <<>>
     /\ 1 \in Loaded /\ \E j \in Loaded : ~SameRes(j, 1))
        => /\ outcome = "returned"
           /\ \A o \in output_files : AtTarget(o)

\* C8, amended: every output written has the one target resolution, computed
\* from the first enumerated file (or the explicit non-zero width and
\* height), whatever the size of the image it came from; but when two loaded
\* images differ in resolution the run does not complete: concatenating the
\* batch raises and nothing is written.
C8_OneTargetOrRaise ==
    /\ \A o \in output_files : AtTarget(o)
    /\ (bpc = "done" /\ MixedLoaded) => outcome = "raised" /\ output_files = {}

\* C8 witness: three loaded images, of three resolutions, the first one being
\* the first enumerated file; the run raised.
C8_Witness ==
    /\ bpc = "done" /\ outcome = "raised"
    /\ Len(image_files) = 3 /\ Loaded = {1, 2, 3}
    /\ ~SameRes(1, 2) /\ ~SameRes(1, 3) /\ ~SameRes(2, 3)
    /\ Len(batch_tensors) = 3
    /\ output_files = {}

\* the suffixes in play that lower-case to an accepted extension
AcceptedSuffixes == {".jpg", ".jpeg", ".png", ".PNG", ".Tiff", ".webp"}
NoImages ==
    \A i \in 1..Len(directory) :
        ~(directory[i].is_file /\ directory[i].suffix \in AcceptedSuffixes)

\* C9: when the input directory holds no regular file with an accepted
\* extension (it is empty, or holds only other files and subdirectories), the
\* function reports that no images were found and returns: it does not raise
\* and writes no file.
C9_NoImagesReturns ==
    (NoImages /\ bpc # "start") =>
        /\ bpc = "done" /\ outcome = "returned"
        /\ output_files = {}
        /\ blog = <<"No images found in input_dir">>

\* C9 witness: a directory holding a text file and a subdirectory named like
\* an image; the function returned.
C9_Witness ==
    /\ bpc = "done" /\ outcome = "returned"
    /\ Len(directory) = 2
    /\ \E i, j \in 1..2 :
          /\ directory[i].suffix = ".txt" /\ directory[i].is_file
          /\ directory[j].suffix = ".webp" /\ ~directory[j].is_file
    /\ output_files = {}

\* C10: whenever --width W and --height H are both supplied, every output is
\* (W, H), whatever --scale is; when only one of them is supplied the scale
\* factor decides.
C10_ExplicitSizeOverridesScale ==
    /\ (cli.width # <<>> /\ cli.height # <<>>) =>
          \A o \in output_files : o.w = cli.width[1] /\ o.h = cli.height[1]
    /\ ((cli.width = <<>>) # (cli.height = <<>>)) =>
          \A o \in output_files :
              /\ Truncated(o.w, image_files[1].w)
              /\ Truncated(o.h, image_files[1].h)

====
